---- MODULE Spec2Model ----
(***************************************************************************)
(* Request controller and job ledger of the App component (src/App.tsx).   *)
(* Each handler's synchronous section is one atomic step: the part of      *)
(* handleSendMessage before the await, and the continuation after the      *)
(* await (try body or catch, then finally), are separate steps.            *)
(* Text is modelled as a sequence of words; String.includes is word        *)
(* membership.                                                             *)
(***************************************************************************)
EXTENDS Integers, Sequences, FiniteSets, TLC

\* ---------------------------------------------------------------- bounds
MaxTurns == 2
MaxStops == 1
MaxResets == 1

Turns == 1..MaxTurns

\* null of abortControllerRef.current (turn ids start at 1), null of cncData
NULL == 0
NoData == [null |-> TRUE]

\* ------------------------------------------------------------ data model
AppMode == {"GENERATE", "OPTIMIZE"}

DefaultStock ==
  [shape |-> "RECTANGULAR", width |-> 100, length |-> 100, height |-> 20,
   diameter |-> 0, material |-> "Aluminum"]

CylStock ==
  [shape |-> "CYLINDRICAL", width |-> 0, length |-> 100, height |-> 20,
   diameter |-> 50, material |-> "Steel"]

StockDimensions == {DefaultStock, CylStock}

\* the operation the Analyzer extracts for turn t (one fresh object per call)
OperationParams(t) == [type |-> "DRILL", id |-> t]

NoGcode == <<>>
OptimizedText == <<"optimized", "program">>

\* the values analyzeRequest can resolve with for turn t
AnalysisResults(t) ==
  [operation : {OperationParams(t)},
   stock : StockDimensions,
   explanation : {<<"explanation">>},
   optimized_gcode : {NoGcode, OptimizedText}]

\* generateSiemensCode(stock, operations, explanation): echoes its inputs,
\* the program text is a function of (stock, operations)
generateSiemensCode(stock, ops, explanation) ==
  [gcode |-> <<"compiled">>,
   explanation |-> explanation,
   operations |-> ops,
   stock |-> stock]

\* ------------------------------------------------------------- failures
StopText == <<"stopped">>
QuotaText == <<"quota", "exhausted">>
ParseText == <<"parse", "failed">>
DefaultErrorText == <<"cannot", "process">>

\* a thrown value: name, message, the serialised enumerable own properties
\* other than message, and whether it is an Error instance (its message
\* and name are then not enumerable and JSON.stringify leaves them out)
Thrown(name, message, props, isError) ==
  [name |-> name, message |-> message, props |-> props, isError |-> isError]

Failures ==
  { Thrown("Error", <<"network", "down">>, <<>>, TRUE),             \* new Error("network down")
    Thrown("Error", <<"status", "429">>, <<>>, TRUE),               \* new Error("status 429")
    Thrown("Object", <<>>, <<"code", "429">>, FALSE),               \* {"code":429}
    Thrown("Error", <<"quota", "exceeded">>, <<>>, TRUE),           \* new Error("quota exceeded")
    Thrown("Object", <<>>, <<"reason", "quota">>, FALSE),           \* {"reason":"quota"}
    Thrown("Error", <<"bad", "JSON">>, <<>>, TRUE),                 \* new Error("bad JSON")
    Thrown("Object", <<>>, <<"detail", "JSON">>, FALSE),            \* {"detail":"JSON"}
    Thrown("Error", <<"bad", "JSON">>, <<"reason", "quota">>, TRUE) \* Error with an enumerable field
  }

AbortFailures ==
  { Thrown("AbortError", <<"signal", "aborted">>, <<>>, TRUE),
    Thrown("Error", <<"Aborted">>, <<>>, TRUE) }

Includes(str, word) == \E i \in DOMAIN str : str[i] = word

\* JSON.stringify(err): only enumerable own properties are serialised
JSONstringify(err) ==
  IF err.isError THEN err.props ELSE err.message \o err.props

IsAbort(err) == err.name = "AbortError" \/ err.message = <<"Aborted">>

ErrorText(err) ==
  LET errorMessage == IF err.message # <<>> THEN err.message ELSE DefaultErrorText
      errStr == JSONstringify(err)
  IN IF Includes(errStr, "429") \/ (err.message # <<>> /\ Includes(err.message, "429"))
        \/ Includes(errStr, "quota")
     THEN QuotaText
     ELSE IF Includes(errorMessage, "JSON") THEN ParseText
     ELSE errorMessage

\* ----------------------------------------------------------------- state
VARIABLES
  isProcessing,        \* useState(false)
  cncData,             \* useState<CNCOutput | null>(null)
  messages,            \* useState<ChatMessage[]>([])
  operations,          \* useState<OperationParams[]>([])
  currentStock,        \* useState<StockDimensions>(...)
  abortControllerRef,  \* useRef<AbortController | null>(null): NULL or a turn
  aborted,             \* controllers on which abort() has been signalled
  calls,               \* per turn: the pending invocation of handleSendMessage
  turnCount,           \* number of turns started
  stops,               \* number of handleStopGeneration calls
  resets,              \* number of handleReset calls
  accumulated,         \* history: the operations of the turns that ended
                       \* SUCCESS, in order, while every turn so far is a
                       \* GENERATE turn and no reset has occurred
  lastCommit,          \* history: the turn whose result was committed last
  discarded            \* history: the operations some handleReset removed
                       \* from the ledger

vars == <<isProcessing, cncData, messages, operations, currentStock,
          abortControllerRef, aborted, calls, turnCount, stops, resets,
          accumulated, lastCommit, discarded>>

\* status: "none", "pending" (awaiting analyzeRequest) or "settled";
\* mode and operations are what the closure of the invocation holds;
\* aiMsgs counts the AI-role messages appended for the turn
NoCall ==
  [status |-> "none", mode |-> "GENERATE", operations |-> <<>>, aiMsgs |-> 0]

\* the invocation of turn t has returned: its closure is gone
Returned(t, ai) ==
  [status |-> "settled", mode |-> "GENERATE", operations |-> <<>>,
   aiMsgs |-> calls[t].aiMsgs + ai]

Init ==
  /\ isProcessing = FALSE
  /\ cncData = NoData
  /\ messages = <<>>
  /\ operations = <<>>
  /\ currentStock = DefaultStock
  /\ abortControllerRef = NULL
  /\ aborted = {}
  /\ calls = [t \in Turns |-> NoCall]
  /\ turnCount = 0
  /\ stops = 0
  /\ resets = 0
  /\ accumulated = [tracked |-> TRUE, ops |-> <<>>]
  /\ lastCommit = NULL
  /\ discarded = {}

Untracked == [tracked |-> FALSE, ops |-> <<>>]

\* the elements of a list
Range(seq) == {seq[i] : i \in DOMAIN seq}

Outstanding == {t \in Turns : calls[t].status = "pending"}

\* ------------------------------------------------------------- handlers

\* ChatPanel offers sending only while no turn is REQUESTING
CanSend == ~isProcessing

\* ChatPanel offers stopping only while a turn is REQUESTING
CanStop == isProcessing

\* handleReset without setCncData(null)
handleReset_KeepOutput ==
  /\ Len(messages) > 0
  /\ resets < MaxResets
  /\ operations' = <<>>
  /\ messages' = <<>>
  /\ resets' = resets + 1
  /\ accumulated' = Untracked
  /\ discarded' = discarded \cup Range(operations)
  /\ UNCHANGED <<isProcessing, cncData, currentStock, abortControllerRef, aborted,
                 calls, turnCount, stops, lastCommit>>

handleReset ==
  /\ Len(messages) > 0
  /\ resets < MaxResets
  /\ operations' = <<>>
  /\ cncData' = NoData
  /\ messages' = <<>>
  /\ resets' = resets + 1
  /\ accumulated' = Untracked
  /\ discarded' = discarded \cup Range(operations)
  /\ UNCHANGED <<isProcessing, currentStock, abortControllerRef, aborted, calls,
                 turnCount, stops, lastCommit>>

\* handleStopGeneration without the abort() call on the current controller
handleStopGeneration_NoAbort ==
  /\ CanStop
  /\ stops < MaxStops
  /\ IF abortControllerRef # NULL
       THEN /\ abortControllerRef' = NULL
            /\ calls' = [calls EXCEPT ![abortControllerRef].aiMsgs = @ + 1]
       ELSE UNCHANGED <<abortControllerRef, calls>>
  /\ isProcessing' = FALSE
  /\ messages' = Append(messages, [role |-> "ai", text |-> StopText])
  /\ stops' = stops + 1
  /\ UNCHANGED <<cncData, operations, currentStock, aborted, turnCount, resets,
                 accumulated, lastCommit, discarded>>

\* handleStopGeneration that signals abort() but keeps the controller current
handleStopGeneration_KeepRef ==
  /\ CanStop
  /\ stops < MaxStops
  /\ IF abortControllerRef # NULL
       THEN /\ aborted' = aborted \cup {abortControllerRef}
            /\ calls' = [calls EXCEPT ![abortControllerRef].aiMsgs = @ + 1]
       ELSE UNCHANGED <<aborted, calls>>
  /\ isProcessing' = FALSE
  /\ messages' = Append(messages, [role |-> "ai", text |-> StopText])
  /\ stops' = stops + 1
  /\ UNCHANGED <<cncData, operations, currentStock, abortControllerRef,
                 turnCount, resets, accumulated, lastCommit, discarded>>

handleStopGeneration ==
  /\ CanStop
  /\ stops < MaxStops
  /\ IF abortControllerRef # NULL
       THEN /\ aborted' = aborted \cup {abortControllerRef}
            /\ abortControllerRef' = NULL
            /\ calls' = [calls EXCEPT ![abortControllerRef].aiMsgs = @ + 1]
       ELSE UNCHANGED <<aborted, abortControllerRef, calls>>
  /\ isProcessing' = FALSE
  /\ messages' = Append(messages, [role |-> "ai", text |-> StopText])
  /\ stops' = stops + 1
  /\ UNCHANGED <<cncData, operations, currentStock, turnCount, resets,
                 accumulated, lastCommit, discarded>>

\* handleSendMessage up to the await: the closure keeps the operations of the
\* render in which the handler was created
SendMessage(mode) ==
  /\ CanSend
  /\ turnCount < MaxTurns
  /\ LET t == turnCount + 1 IN
       /\ isProcessing' = TRUE
       /\ messages' = Append(messages, [role |-> "user", text |-> <<"prompt">>])
       /\ abortControllerRef' = t
       /\ calls' = [calls EXCEPT ![t] =
                      [status |-> "pending", mode |-> mode,
                       operations |-> operations, aiMsgs |-> 0]]
       /\ turnCount' = t
       /\ accumulated' = IF mode = "GENERATE" THEN accumulated ELSE Untracked
  /\ UNCHANGED <<cncData, operations, currentStock, aborted, stops, resets,
                 lastCommit, discarded>>

\* a finally block that never returns the controller to IDLE
Finally_NoIdle(t) ==
  UNCHANGED <<isProcessing, abortControllerRef>>

\* a finally block without the comparison of the controllers
Finally_Unguarded(t) ==
  /\ isProcessing' = FALSE
  /\ abortControllerRef' = NULL

\* a finally block that forgets to clear abortControllerRef.current
Finally_OnlyFlag(t) ==
  IF abortControllerRef = t
    THEN /\ isProcessing' = FALSE
         /\ UNCHANGED abortControllerRef
    ELSE UNCHANGED <<isProcessing, abortControllerRef>>

\* finally block of handleSendMessage for the call of turn t
Finally(t) ==
  IF abortControllerRef = t
    THEN /\ isProcessing' = FALSE
         /\ abortControllerRef' = NULL
    ELSE UNCHANGED <<isProcessing, abortControllerRef>>

\* a commit whose replace branch tests optimized_gcode but not the mode
Commit_IgnoreMode(t, analysis) ==
  IF analysis.optimized_gcode # NoGcode
    THEN LET ops == <<analysis.operation>> IN
         [operations |-> ops,
          stock |-> analysis.stock,
          compiled |-> FALSE,
          result |-> [gcode |-> analysis.optimized_gcode,
                      explanation |-> analysis.explanation,
                      operations |-> ops,
                      stock |-> analysis.stock]]
    ELSE LET newOps == Append(calls[t].operations, analysis.operation) IN
         [operations |-> newOps,
          stock |-> analysis.stock,
          compiled |-> TRUE,
          result |-> generateSiemensCode(analysis.stock, newOps, analysis.explanation)]

\* a commit that merges the analyzed stock into the previous one (the
\* material of the job is kept)
Commit_MergeStock(t, analysis) ==
  LET merged == [analysis.stock EXCEPT !.material = currentStock.material] IN
  IF calls[t].mode = "OPTIMIZE" /\ analysis.optimized_gcode # NoGcode
    THEN LET ops == <<analysis.operation>> IN
         [operations |-> ops,
          stock |-> merged,
          compiled |-> FALSE,
          result |-> [gcode |-> analysis.optimized_gcode,
                      explanation |-> analysis.explanation,
                      operations |-> ops,
                      stock |-> merged]]
    ELSE LET newOps == Append(calls[t].operations, analysis.operation) IN
         [operations |-> newOps,
          stock |-> merged,
          compiled |-> TRUE,
          result |-> generateSiemensCode(merged, newOps, analysis.explanation)]

\* the ledger and output a successful analysis commits
Commit(t, analysis) ==
  IF calls[t].mode = "OPTIMIZE" /\ analysis.optimized_gcode # NoGcode
    THEN LET ops == <<analysis.operation>> IN
         [operations |-> ops,
          stock |-> analysis.stock,
          compiled |-> FALSE,
          result |-> [gcode |-> analysis.optimized_gcode,
                      explanation |-> analysis.explanation,
                      operations |-> ops,
                      stock |-> analysis.stock]]
    ELSE LET newOps == Append(calls[t].operations, analysis.operation) IN
         [operations |-> newOps,
          stock |-> analysis.stock,
          compiled |-> TRUE,
          result |-> generateSiemensCode(analysis.stock, newOps, analysis.explanation)]

\* analyzeRequest of turn t resolves: rest of the try block, then finally
Resolve(t, analysis) ==
  /\ calls[t].status = "pending"
  /\ LET c == Commit(t, analysis) IN
       /\ operations' = c.operations
       /\ currentStock' = c.stock
       /\ cncData' = c.result
       /\ messages' = Append(messages, [role |-> "ai", text |-> c.result.explanation])
  /\ accumulated' =
       IF accumulated.tracked /\ abortControllerRef = t
         THEN [accumulated EXCEPT !.ops = Append(@, analysis.operation)]
         ELSE accumulated
  /\ lastCommit' = t
  /\ calls' = [calls EXCEPT ![t] = Returned(t, 1)]
  /\ Finally(t)
  /\ UNCHANGED <<aborted, turnCount, stops, resets, discarded>>

\* a catch block that also drops the compiled output on a failure
Reject_ClearsOutput(t, err) ==
  /\ calls[t].status = "pending"
  /\ IsAbort(err) => t \in aborted
  /\ IF IsAbort(err)
       THEN /\ UNCHANGED <<messages, cncData>>
            /\ calls' = [calls EXCEPT ![t] = Returned(t, 0)]
       ELSE /\ messages' = Append(messages, [role |-> "ai", text |-> ErrorText(err)])
            /\ cncData' = NoData
            /\ calls' = [calls EXCEPT ![t] = Returned(t, 1)]
  /\ Finally(t)
  /\ UNCHANGED <<operations, currentStock, aborted, turnCount, stops,
                 resets, accumulated, lastCommit, discarded>>

\* analyzeRequest of turn t rejects: catch block, then finally. The Analyzer
\* reports a cancellation only for a call whose signal has been aborted.
Reject(t, err) ==
  /\ calls[t].status = "pending"
  /\ IsAbort(err) => t \in aborted
  /\ IF IsAbort(err)
       THEN /\ UNCHANGED messages
            /\ calls' = [calls EXCEPT ![t] = Returned(t, 0)]
       ELSE /\ messages' = Append(messages, [role |-> "ai", text |-> ErrorText(err)])
            /\ calls' = [calls EXCEPT ![t] = Returned(t, 1)]
  /\ Finally(t)
  /\ UNCHANGED <<cncData, operations, currentStock, aborted, turnCount, stops,
                 resets, accumulated, lastCommit, discarded>>

Settle(t) ==
  \/ \E analysis \in AnalysisResults(t) : Resolve(t, analysis)
  \/ \E err \in Failures \cup AbortFailures : Reject(t, err)

Next ==
  \/ handleReset
  \/ handleStopGeneration
  \/ \E mode \in AppMode : SendMessage(mode)
  \/ \E t \in Turns : \E analysis \in AnalysisResults(t) : Resolve(t, analysis)
  \/ \E t \in Turns : \E err \in Failures \cup AbortFailures : Reject(t, err)

Spec == Init /\ [][Next]_vars

\* every issued analysis call eventually resolves or rejects
FairSpec == Spec /\ WF_vars(\E t \in Turns : Settle(t))

\* ================================================================ claims

Last(seq) == seq[Len(seq)]

StopMsg == [role |-> "ai", text |-> StopText]

\* C1: a successful result arriving for a turn that handleStopGeneration has
\* cancelled changes none of operations, currentStock, cncData, messages.
C1_StaleResultDiscarded ==
  [][\A t \in aborted : \A analysis \in AnalysisResults(t) :
       Resolve(t, analysis)
         => UNCHANGED <<operations, currentStock, cncData, messages>>]_vars

\* C2: every turn whose analysis call has resolved or rejected has appended
\* exactly one AI-role message over its lifetime.
C2_ExactlyOneAiMessage ==
  \A t \in Turns : calls[t].status = "settled" => calls[t].aiMsgs = 1

\* C3: under the assumption that every issued call eventually resolves or
\* rejects, isProcessing = TRUE always leads to isProcessing = FALSE.
C3_NoStuckRequesting == isProcessing ~> ~isProcessing

\* a turn that was never cancelled has settled and the controller is IDLE
C3_Witness ==
  /\ ~isProcessing
  /\ \E t \in Turns : calls[t].status = "settled" /\ t \notin aborted

\* C4 (as stated): at most one issued call is unresolved in every state.
C4_AtMostOneOutstanding == Cardinality(Outstanding) <= 1

\* C4 (amended): at most one outstanding call has not been cancelled, and it
\* is the call holding the current token; every other outstanding call has
\* had abort() signalled on its controller.
C4_AtMostOneLiveOutstanding ==
  /\ \A t \in Outstanding : t \notin aborted => abortControllerRef = t
  /\ Cardinality({t \in Outstanding : t \notin aborted}) <= 1

\* a cancelled call is still outstanding next to the call of a newer turn
C4_Witness ==
  /\ Cardinality(Outstanding) = 2
  /\ abortControllerRef \in Outstanding
  /\ \E t \in Outstanding : t \in aborted

\* C5: the handleStopGeneration step on an in-flight turn leaves operations,
\* currentStock and cncData unchanged, appends exactly one stop message,
\* signals abort() on the current controller and clears the reference, and
\* leaves isProcessing FALSE.
C5_StopEffects ==
  [][(handleStopGeneration /\ abortControllerRef # NULL)
       => /\ UNCHANGED <<operations, currentStock, cncData>>
          /\ messages' = Append(messages, StopMsg)
          /\ abortControllerRef \in aborted'
          /\ abortControllerRef' = NULL
          /\ ~isProcessing']_vars

\* a turn has just been cancelled while its call is still pending
C5_Witness ==
  /\ \E t \in aborted : calls[t].status = "pending"
  /\ abortControllerRef = NULL
  /\ Len(messages) > 0
  /\ Last(messages) = StopMsg

\* C6: after a successful OPTIMIZE turn, with or without ready-made program
\* text, operations is the singleton list of that turn's operation.
C6_ReplaceModeSingleton ==
  [][\A t \in Turns : \A analysis \in AnalysisResults(t) :
       (Resolve(t, analysis) /\ abortControllerRef = t /\ calls[t].mode = "OPTIMIZE")
         => operations' = <<analysis.operation>>]_vars

\* C7: with no reset and only GENERATE turns since the empty ledger, the
\* ledger holds the operations of the N successful turns in submission
\* order, and the list compiled on the N-th turn is that whole list.
C7_AccumulateLedger ==
  accumulated.tracked
    => /\ operations = accumulated.ops
       /\ cncData # NoData
            => cncData = generateSiemensCode(cncData.stock, accumulated.ops,
                                             cncData.explanation)

\* C8: a successful GENERATE commit sets operations to the operations held
\* immediately before the commit with the analyzed operation appended.
C8_AppendsToCurrentLedger ==
  [][\A t \in Turns : \A analysis \in AnalysisResults(t) :
       (Resolve(t, analysis) /\ abortControllerRef = t /\ calls[t].mode = "GENERATE")
         => operations' = Append(operations, analysis.operation)]_vars

\* C9: after handleReset operations is empty, currentStock is the default
\* stock and cncData is null.
C9_ResetComplete ==
  [][handleReset
       => /\ operations' = <<>>
          /\ currentStock' = DefaultStock
          /\ cncData' = NoData]_vars

\* the substring occurs somewhere in the failure: message or serialised rest
PayloadHas(err, word) == Includes(err.message, word) \/ Includes(err.props, word)

\* C10: a non-cancel failure maps to the quota message when its payload
\* contains "429" or "quota", else to the parse-failure message when it
\* contains "JSON", else to neither.
C10_ErrorMapping ==
  [][\A t \in Turns : \A err \in Failures :
       Reject(t, err)
         => LET text == Last(messages').text
            IN IF PayloadHas(err, "429") \/ PayloadHas(err, "quota")
                 THEN text = QuotaText
                 ELSE IF PayloadHas(err, "JSON")
                        THEN text = ParseText
                        ELSE text \notin {QuotaText, ParseText}]_vars

\* C11: turn results are committed in submission order: no result is
\* committed after the result of a turn that was submitted later.
C11_CommitsInSubmissionOrder ==
  [][\A t \in Turns : \A analysis \in AnalysisResults(t) :
       Resolve(t, analysis) => lastCommit < t]_vars

\* C12: an OPTIMIZE result carrying program text commits that text verbatim
\* with the singleton operation list and the analyzed stock, without the
\* compiler; a GENERATE result is always compiled, program text or not.
C12_ReadyMadeProgram ==
  [][\A t \in Turns : \A analysis \in AnalysisResults(t) :
       Resolve(t, analysis)
         => /\ (calls[t].mode = "OPTIMIZE" /\ analysis.optimized_gcode # NoGcode)
                 => /\ cncData'.gcode = analysis.optimized_gcode
                    /\ cncData'.operations = <<analysis.operation>>
                    /\ cncData'.stock = analysis.stock
                    /\ ~Commit(t, analysis).compiled
            /\ calls[t].mode = "GENERATE"
                 => /\ Commit(t, analysis).compiled
                    /\ cncData' = generateSiemensCode(analysis.stock, operations',
                                                      analysis.explanation)]_vars

\* the output holds ready-made program text of a replace-mode turn
C12_Witness ==
  /\ cncData # NoData
  /\ cncData.gcode = OptimizedText
  /\ cncData.operations = operations
  /\ Len(operations) = 1

\* C13: a commit overwrites currentStock with the analyzed stock in full,
\* and no step other than a commit or a reset changes currentStock.
C13_StockLastWriteWins ==
  [][/\ \A t \in Turns : \A analysis \in AnalysisResults(t) :
          Resolve(t, analysis) => currentStock' = analysis.stock
     /\ currentStock' # currentStock
          => \/ handleReset
             \/ \E t \in Turns : \E analysis \in AnalysisResults(t) :
                  Resolve(t, analysis)]_vars

\* a commit has overwritten the initial stock with a different analyzed one
C13_Witness ==
  /\ currentStock = CylStock
  /\ lastCommit # NULL
  /\ currentStock.material # DefaultStock.material

\* C14: when the call of a turn settles, the controller returns to IDLE and
\* the current token is cleared exactly if that turn's token is the current
\* one; a stale call leaves isProcessing and the newer token untouched.
C14_TokenGuardOnCompletion ==
  [][\A t \in Turns :
       Settle(t)
         => IF abortControllerRef = t
              THEN ~isProcessing' /\ abortControllerRef' = NULL
              ELSE UNCHANGED <<isProcessing, abortControllerRef>>]_vars

\* a cancelled turn has settled while a newer turn is still REQUESTING
C14_Witness ==
  /\ isProcessing
  /\ abortControllerRef # NULL
  /\ calls[abortControllerRef].status = "pending"
  /\ \E t \in aborted : t < abortControllerRef /\ calls[t].status = "settled"

\* C15: an operation that a handleReset removed from the ledger is never in
\* the ledger or in cncData.operations again.
C15_ResetDiscardsHistory ==
  /\ Range(operations) \cap discarded = {}
  /\ cncData # NoData => Range(cncData.operations) \cap discarded = {}

\* C16: whenever cncData is non-null, its operations are the ledger's
\* operations and its stock is currentStock.
C16_OutputAgreesWithLedger ==
  cncData # NoData
    => /\ cncData.operations = operations
       /\ cncData.stock = currentStock

\* a turn in flight at the reset has committed afterwards
C16_Witness ==
  /\ cncData # NoData
  /\ resets > 0
  /\ Len(operations) = 2

\* C17: isProcessing is TRUE exactly when abortControllerRef.current holds
\* a controller.
C17_ProcessingIffToken ==
  isProcessing <=> abortControllerRef # NULL

\* the controller is IDLE while a cancelled call is still outstanding
C17_Witness ==
  /\ ~isProcessing
  /\ abortControllerRef = NULL
  /\ Outstanding # {}

\* C18: the steps of a turn that ends FAILED leave operations, currentStock
\* and cncData unchanged: the send step appends the user message, the
\* rejection appends one error message and returns the controller to IDLE.
C18_FailedTurnFrame ==
  [][/\ \A mode \in AppMode :
          SendMessage(mode)
            => /\ UNCHANGED <<operations, currentStock, cncData>>
               /\ Len(messages') = Len(messages) + 1
               /\ Last(messages').role = "user"
     /\ \A t \in Turns : \A err \in Failures :
          (Reject(t, err) /\ abortControllerRef = t)
            => /\ UNCHANGED <<operations, currentStock, cncData>>
               /\ messages' = Append(messages, [role |-> "ai", text |-> ErrorText(err)])
               /\ calls'[t].aiMsgs = 1
               /\ ~isProcessing'
               /\ abortControllerRef' = NULL]_vars

\* a turn has failed after an earlier turn's output was committed
C18_Witness ==
  /\ ~isProcessing
  /\ cncData # NoData
  /\ Len(messages) > 0
  /\ Last(messages) = [role |-> "ai", text |-> QuotaText]
  /\ Outstanding = {}

====
